---------------------------- MODULE Spec2Model ----------------------------
(***************************************************************************)
(* Model of SuwayomiBot (src/bot.py): the shared aiohttp session, the      *)
(* remembered GraphQL endpoint (_working_endpoint), graphql_query, the     *)
(* call that tries the candidate endpoints in turn, on_ready, the refresh  *)
(* loop and close(); and of search_manga of the cog                        *)
(* (src/cogs/suwayomi.py).                                                 *)
(*                                                                         *)
(* The bot runs on one asyncio event loop.  A coroutine runs without       *)
(* interruption between two points where it really suspends; in            *)
(* graphql_query those points are the HTTP exchange (session.post and the  *)
(* reading of the body).  ensure_session never suspends: nothing awaits    *)
(* while holding _session_lock, so the lock is always free when it is      *)
(* requested.  An action below is therefore one run of the code from one   *)
(* suspension point to the next.                                           *)
(***************************************************************************)
EXTENDS Naturals, Sequences, FiniteSets

(* Python's None: self._working_endpoint, a call's result, absent data.    *)
None == "None"

(* self.session = None: no handle.  Handles are numbered from 1 in the     *)
(* order of their creation.                                                *)
NoSession == 0

(* The two configured endpoint paths (f"{SUWAYOMI_URL}/api/graphql" and    *)
(* f"{SUWAYOMI_URL}/graphql"); the base URL is fixed by Config.            *)
ApiGraphql == "/api/graphql"
Graphql == "/graphql"
base_endpoints == <<ApiGraphql, Graphql>>

(* The value of result["data"] when it is usable.                          *)
Payload == "payload"

(* The coroutines that call graphql_query: a command handler of the cog    *)
(* and the periodic refresh_graphql_task.                                  *)
Tasks == {"command", "refresh"}

(* Bound: the number of graphql_query calls started in one behaviour.      *)
MaxCalls == 2

(* The tasks that call graphql_query through test_graphql_connection: the  *)
(* iterations of refresh_graphql_task.                                     *)
Probers == {"refresh"}

(* result.get('aboutServer', {}) of a payload: a JSON object, the default  *)
(* {} when the key is absent, or None when the key holds null.             *)
AboutServer == {"object", "absent", "null"}

(* A 200 response whose body parses to a JSON object: whether it has the   *)
(* "errors" key, and result.get("data") (None when absent, null or empty). *)
Bodies == [errors : BOOLEAN, data : {None, Payload}]

VARIABLES
    working_endpoint,  \* self._working_endpoint
    session,           \* self.session: None or a handle
    nhandles,          \* number of ClientSession objects created so far
    open,              \* the handles h with not h.closed
    shutdown,          \* close() has run
    calls,             \* graphql_query calls started
    pc,                \* per task: "idle", or "await" (inside session.post)
    endpoints,         \* per task: the local list endpoints
    idx,               \* per task: position of graphql_url in endpoints
    lsession,          \* per task: the local variable session
    sticky0,           \* per task: _working_endpoint as read at line 239
    sent,              \* per task: URLs posted to in the current/last call
    nresp,             \* per task: requests of the call that have ended
    last,              \* per task: what the latest of them ended with
    failed_sticky,     \* per task: URL whose request failed while it was sticky
    ret,               \* per task: result of the last call
    ready,             \* on_ready has been dispatched (wait_until_ready passes)
    token_refresh_task_running,  \* self.token_refresh_task_running
    loop_task,         \* the task of refresh_graphql_task
    health,            \* result of the last test_graphql_connection
    spc,               \* search_manga: where the handler is
    include_nsfw,      \* search_manga: the option include_nsfw
    sources_data,      \* search_manga: what the sources query gave
    all_sources,       \* search_manga: isNsfw of each node, by source id
    sources,           \* search_manga: the list sources (ids)
    limit,             \* search_manga: the option limit
    si,                \* search_manga: position of source in sources[:20]
    search_data,       \* search_manga: what the latest per-source call gave
    mangas,            \* search_manga: the list mangas of the latest payload
    all_results,       \* search_manga: the list all_results
    sources_searched,  \* search_manga: the counter sources_searched
    gcalls,            \* search_manga: source ids the Gateway was called for
    unique_results,    \* search_manga: the list unique_results
    bpc,               \* add_button: where the handler is
    chapter_ids,       \* add_button: the list chapter_ids
    batch_i,           \* add_button: the loop variable i
    download_success,  \* add_button: the flag download_success
    downloaded_count,  \* add_button: the counter downloaded_count
    submitted,         \* add_button: chapterIds of each download call made
    outcome,           \* add_button: what the button shows at the end
    env,               \* the environment variables Config reads
    config             \* the Config object, or the error of its construction

(* The variables of graphql_query and of the session.                      *)
gatewayvars == <<working_endpoint, session, nhandles, open, shutdown, calls,
                 pc, endpoints, idx, lsession, sticky0, sent, nresp, last,
                 failed_sticky, ret>>

(* The variables of on_ready, of the refresh loop and of close().          *)
lifevars == <<ready, token_refresh_task_running, loop_task>>

(* The variables of search_manga.                                          *)
searchvars == <<spc, include_nsfw, sources_data, all_sources, sources, limit,
                si, search_data, mangas, all_results, sources_searched,
                gcalls, unique_results>>

(* The variables of add_button.                                            *)
buttonvars == <<bpc, chapter_ids, batch_i, download_success,
                downloaded_count, submitted, outcome>>

(* The variables of Config.                                                *)
configvars == <<env, config>>

vars == <<gatewayvars, lifevars, health, searchvars, buttonvars, configvars>>

Range(s) == {s[i] : i \in 1..Len(s)}

(* What a call can end with: not yet called, a value, or an exception.     *)
NoCall == "NoCall"
Raised == "Raised"

----------------------------------------------------------------------------
(* Pure parts of the code.                                                 *)

(* Lines 236-250: the sticky endpoint first when set, then the configured  *)
(* endpoints that are not in the list yet.                                 *)
RECURSIVE AppendMissing(_, _)
AppendMissing(acc, rest) ==
    IF rest = <<>> THEN acc
    ELSE AppendMissing(IF Head(rest) \in Range(acc) THEN acc
                       ELSE Append(acc, Head(rest)),
                       Tail(rest))

(* The list as it would be built without the "not in endpoints" test.      *)
build_endpoints_nodedup(we) ==
    (IF we # None THEN <<we>> ELSE <<>>) \o base_endpoints

(* The list with the sticky endpoint appended after the configured ones.   *)
build_endpoints_sticky_last(we) ==
    AppendMissing(base_endpoints, IF we # None THEN <<we>> ELSE <<>>)

build_endpoints(we) ==
    AppendMissing(IF we # None THEN <<we>> ELSE <<>>, base_endpoints)

(* The session part of the bot as a record.                                *)
Bot == [session |-> session, nhandles |-> nhandles, open |-> open]

(* ensure_session without the test of line 172: a handle is created on     *)
(* every call.                                                             *)
ensure_session_always(b, createOk) ==
    IF createOk
    THEN [raised |-> FALSE,
          session |-> b.nhandles + 1,
          nhandles |-> b.nhandles + 1,
          open |-> b.open \cup {b.nhandles + 1}]
    ELSE [raised |-> TRUE, session |-> b.session,
          nhandles |-> b.nhandles, open |-> b.open]

(* ensure_session, lines 169-196.  createOk: the ClientSession constructor *)
(* returns (TRUE) or raises (FALSE).                                       *)
ensure_session(b, createOk) ==
    IF b.session = NoSession \/ b.session \notin b.open
    THEN IF createOk
         THEN [raised |-> FALSE,
               session |-> b.nhandles + 1,
               nhandles |-> b.nhandles + 1,
               open |-> b.open \cup {b.nhandles + 1}]
         ELSE [raised |-> TRUE, session |-> b.session,
               nhandles |-> b.nhandles, open |-> b.open]
    ELSE [raised |-> FALSE, session |-> b.session,
          nhandles |-> b.nhandles, open |-> b.open]

(* The loop without the test of lines 268-270: the request goes out on the *)
(* local session as it is.                                                 *)
next_request_no_test(eps, i, b, ls, createOk) ==
    IF i > Len(eps)
    THEN [post |-> FALSE, idx |-> i, bot |-> b, ls |-> ls]
    ELSE [post |-> TRUE, idx |-> i, bot |-> b, ls |-> ls]

(* Lines 264-272: the loop from candidate i up to the next request.  A     *)
(* closed local session is replaced through ensure_session; when that      *)
(* raises, the generic handler (308-310) goes on to the next candidate.    *)
RECURSIVE next_request(_, _, _, _, _)
next_request(eps, i, b, ls, createOk) ==
    IF i > Len(eps)
    THEN [post |-> FALSE, idx |-> i, bot |-> b, ls |-> ls]
    ELSE IF ls \notin b.open
         THEN LET r == ensure_session(b, createOk) IN
              IF r.raised
              THEN next_request(eps, i + 1, b, ls, createOk)
              ELSE [post |-> TRUE, idx |-> i, bot |-> r, ls |-> r.session]
         ELSE [post |-> TRUE, idx |-> i, bot |-> b, ls |-> ls]

----------------------------------------------------------------------------
(* Config (lines 26-59).  A string is the sequence of its characters; an   *)
(* environment variable is a record saying whether it is set and, when it  *)
(* is, its value.                                                          *)

Whitespace == {" "}
Quotes == {"\"", "'"}
Digits == {"7"}
Http == <<"h", "t", "t", "p", ":", "/", "/">>
Https == <<"h", "t", "t", "p", "s", ":", "/", "/">>

(* str.lstrip(chars), str.rstrip(chars), str.strip(chars): the characters  *)
(* of the set are removed from the end(s) as long as there are any.        *)
RECURSIVE lstrip(_, _)
lstrip(str, chars) ==
    IF str # <<>> /\ Head(str) \in chars THEN lstrip(Tail(str), chars)
    ELSE str

RECURSIVE rstrip(_, _)
rstrip(str, chars) ==
    IF str # <<>> /\ str[Len(str)] \in chars
    THEN rstrip(SubSeq(str, 1, Len(str) - 1), chars)
    ELSE str

strip(str, chars) == rstrip(lstrip(str, chars), chars)

(* str.startswith(prefix), and "c in str".                                 *)
startswith(str, prefix) ==
    Len(str) >= Len(prefix) /\ SubSeq(str, 1, Len(prefix)) = prefix

contains(str, c) == \E k \in 1..Len(str) : str[k] = c

(* os.getenv(name, default): the default when the variable is not set.     *)
Unset == [set |-> FALSE, value |-> <<>>]
Value(str) == [set |-> TRUE, value |-> str]
getenv(e, name, default) == IF e[name].set THEN e[name] ELSE default

(* Truthiness of None or a string.                                         *)
truthy(v) == v.set /\ v.value # <<>>

(* int(str): surrounding whitespace is dropped, then an optional sign,     *)
(* then digits, where single underscores may stand between digits.         *)
unsigned(str) ==
    LET t == strip(str, Whitespace)
    IN IF t # <<>> /\ Head(t) \in {"+", "-"} THEN Tail(t) ELSE t

int_accepts(str) ==
    LET u == unsigned(str) IN
    /\ u # <<>>
    /\ \A k \in 1..Len(u) : u[k] \in Digits \cup {"_"}
    /\ u[1] \in Digits
    /\ u[Len(u)] \in Digits
    /\ \A k \in 1..(Len(u) - 1) : ~(u[k] = "_" /\ u[k + 1] = "_")

DigitValue(c) == 7

RECURSIVE magnitude(_, _)
magnitude(u, acc) ==
    IF u = <<>> THEN acc
    ELSE magnitude(Tail(u), IF Head(u) = "_" THEN acc
                            ELSE 10 * acc + DigitValue(Head(u)))

int(str) ==
    [negative |-> strip(str, Whitespace)[1] = "-",
     magnitude |-> magnitude(unsigned(str), 0)]

(* Line 31 without the rstrip('/').                                        *)
stored_url_keep_slash(e) ==
    Value(strip(strip(strip(getenv(e, "SUWAYOMI_URL", Value(<<>>)).value,
                            Whitespace), {"\""}), {"'"}))

(* Line 31: the URL as stored.                                             *)
stored_url(e) ==
    Value(rstrip(strip(strip(strip(
        getenv(e, "SUWAYOMI_URL", Value(<<>>)).value,
        Whitespace), {"\""}), {"'"}), {"/"}))

(* Line 32: the API key as stored.                                         *)
stored_api_key(e) ==
    Value(strip(strip(strip(
        getenv(e, "SUWAYOMI_API_KEY", Value(<<>>)).value,
        Whitespace), {"\""}), {"'"}))

(* Lines 36-59, validate(): the first error raised, or None.               *)
validate(c) ==
    IF ~truthy(c.TOKEN) \/ ~truthy(c.SUWAYOMI_URL)
       \/ ~truthy(c.SUWAYOMI_API_KEY)
    THEN "Missing required environment variables"
    ELSE IF ~(startswith(c.SUWAYOMI_URL.value, Http)
              \/ startswith(c.SUWAYOMI_URL.value, Https))
    THEN "SUWAYOMI_URL must start with http:// or https://"
    ELSE IF \E q \in Quotes : contains(c.SUWAYOMI_URL.value, q)
    THEN "SUWAYOMI_URL contains quotes"
    ELSE IF truthy(c.GUILD_ID) /\ ~int_accepts(c.GUILD_ID.value)
    THEN "GUILD_ID must be a numeric value"
    ELSE None

(* Config(): the attributes are read from the environment (lines 29-32),   *)
(* validate() runs, and GUILD_ID is converted when it is provided.         *)
Config(e) ==
    LET c == [TOKEN |-> getenv(e, "DISCORD_TOKEN", Unset),
              GUILD_ID |-> getenv(e, "GUILD_ID", Unset),
              SUWAYOMI_URL |-> stored_url(e),
              SUWAYOMI_API_KEY |-> stored_api_key(e)]
        error == validate(c)
    IN [error |-> error,
        TOKEN |-> c.TOKEN,
        SUWAYOMI_URL |-> c.SUWAYOMI_URL,
        SUWAYOMI_API_KEY |-> c.SUWAYOMI_API_KEY,
        GUILD_ID |-> IF error = None /\ truthy(c.GUILD_ID)
                     THEN [converted |-> TRUE, str |-> <<>>,
                           int |-> int(c.GUILD_ID.value)]
                     ELSE [converted |-> FALSE, str |-> c.GUILD_ID,
                           int |-> 0]]

(* No Config has been constructed.                                         *)
NoConfig == [error |-> NoCall]

(* The environment of a bot that runs.                                     *)
ServerEnv ==
    [DISCORD_TOKEN |-> Value(<<"t">>),
     GUILD_ID |-> Unset,
     SUWAYOMI_URL |-> Value(Http \o <<"h">>),
     SUWAYOMI_API_KEY |-> Value(<<"k">>)]

----------------------------------------------------------------------------
BotInit ==
    /\ working_endpoint = None
    /\ session = NoSession
    /\ nhandles = 0
    /\ open = {}
    /\ shutdown = FALSE
    /\ calls = 0
    /\ pc = [t \in Tasks |-> "idle"]
    /\ endpoints = [t \in Tasks |-> <<>>]
    /\ idx = [t \in Tasks |-> 0]
    /\ lsession = [t \in Tasks |-> NoSession]
    /\ sticky0 = [t \in Tasks |-> None]
    /\ sent = [t \in Tasks |-> <<>>]
    /\ nresp = [t \in Tasks |-> 0]
    /\ last = [t \in Tasks |-> None]
    /\ failed_sticky = [t \in Tasks |-> None]
    /\ ret = [t \in Tasks |-> NoCall]
    /\ ready = FALSE
    /\ token_refresh_task_running = FALSE
    /\ loop_task = "unstarted"
    /\ health = NoCall
    /\ spc = "idle"
    /\ include_nsfw = FALSE
    /\ sources_data = NoCall
    /\ all_sources = <<>>
    /\ sources = <<>>
    /\ limit = 0
    /\ si = 0
    /\ search_data = NoCall
    /\ mangas = <<>>
    /\ all_results = <<>>
    /\ sources_searched = 0
    /\ gcalls = <<>>
    /\ unique_results = <<>>
    /\ bpc = "idle"
    /\ chapter_ids = <<>>
    /\ batch_i = 0
    /\ download_success = TRUE
    /\ downloaded_count = 0
    /\ submitted = <<>>
    /\ outcome = NoCall

(* The bot has been constructed with a valid configuration (line 67).      *)
Init ==
    /\ BotInit
    /\ env = ServerEnv
    /\ config = Config(ServerEnv)

(* The URL of the request task t is waiting for.                           *)
graphql_url(t) == endpoints[t][idx[t]]

SetBot(b) ==
    /\ session' = b.session
    /\ nhandles' = b.nhandles
    /\ open' = b.open

(* The call of task t ends with value v.                                   *)
Return(t, v) ==
    /\ pc' = [pc EXCEPT ![t] = "idle"]
    /\ ret' = [ret EXCEPT ![t] = v]
    /\ UNCHANGED <<idx, sent>>

(* GoOn without line 320: the exhausted call leaves _working_endpoint.     *)
GoOn_keep_sticky(t, eps, i, b, ls, createOk) ==
    LET n == next_request(eps, i, b, ls, createOk) IN
    /\ SetBot(n.bot)
    /\ lsession' = [lsession EXCEPT ![t] = n.ls]
    /\ idx' = [idx EXCEPT ![t] = n.idx]
    /\ sent' = [sent EXCEPT ![t] = IF n.post THEN Append(@, eps[n.idx]) ELSE @]
    /\ pc' = [pc EXCEPT ![t] = IF n.post THEN "await" ELSE "idle"]
    /\ ret' = [ret EXCEPT ![t] = IF n.post THEN NoCall ELSE None]
    /\ UNCHANGED working_endpoint

(* The loop goes on after the current candidate (continue, or the end of   *)
(* the loop body): either the next request is issued, or the list is       *)
(* exhausted and lines 312-322 run.                                        *)
GoOn(t, eps, i, b, ls, createOk) ==
    LET n == next_request(eps, i, b, ls, createOk) IN
    /\ SetBot(n.bot)
    /\ lsession' = [lsession EXCEPT ![t] = n.ls]
    /\ IF n.post
       THEN /\ idx' = [idx EXCEPT ![t] = n.idx]
            /\ sent' = [sent EXCEPT ![t] = Append(@, eps[n.idx])]
            /\ pc' = [pc EXCEPT ![t] = "await"]
            /\ ret' = [ret EXCEPT ![t] = NoCall]
            /\ UNCHANGED working_endpoint
       ELSE /\ working_endpoint' = None
            /\ idx' = [idx EXCEPT ![t] = n.idx]
            /\ pc' = [pc EXCEPT ![t] = "idle"]
            /\ ret' = [ret EXCEPT ![t] = None]
            /\ UNCHANGED sent

(* Bookkeeping of a response: what the request ended with, and whether the *)
(* URL that failed was the sticky endpoint at that moment.                 *)
Note(t, what, failure) ==
    /\ nresp' = [nresp EXCEPT ![t] = @ + 1]
    /\ last' = [last EXCEPT ![t] = what]
    /\ failed_sticky' =
         IF failure /\ working_endpoint = graphql_url(t)
         THEN [failed_sticky EXCEPT ![t] = graphql_url(t)]
         ELSE failed_sticky

(* Python's booleans as test_graphql_connection returns them.              *)
True == "True"
False == "False"

(* test_graphql_connection, lines 209-218, once graphql_query has ended    *)
(* with result: True when the result is truthy and the log line 212-213    *)
(* runs through; an exception of the call or of server_info.get (None has  *)
(* no get) is caught at line 215 and the function returns False.           *)
test_graphql_connection(result, about) ==
    IF result = Raised THEN False
    ELSE IF result = Payload
         THEN IF about = "null" THEN False ELSE True
         ELSE False

----------------------------------------------------------------------------
(* MangaActionView.add_button (src/cogs/suwayomi.py, lines 409-575): the   *)
(* manga is added to the library, its chapters are fetched, and their ids  *)
(* are sent to the download queue in batches.  The three kinds of call go  *)
(* through graphql_query in the handler's own task.                        *)

(* Line 495.                                                               *)
batch_size == 50

(* Bound: the number of chapters the server lists for a manga.             *)
MaxChapters == 120

(* The positions of the handler at (or inside) a call of graphql_query.    *)
ButtonCalls == {"add", "chapters", "batch"}

(* Lines 468-469: the payload of the chapters query, whether it has a      *)
(* manga and how many chapter nodes.                                       *)
ChaptersAnswers == [manga : BOOLEAN, n : 0..MaxChapters]

(* Line 487: the ids of the nodes, here in descending order.               *)
ids_of(n) == [k \in 1..n |-> n + 1 - k]

(* The slice with one id fewer.                                            *)
batch_short(ids, i) ==
    SubSeq(ids, i + 1,
           IF i + batch_size - 1 <= Len(ids) THEN i + batch_size - 1
           ELSE Len(ids))

(* Line 500: chapter_ids[i:i + batch_size].                                *)
batch(ids, i) ==
    SubSeq(ids, i + 1,
           IF i + batch_size <= Len(ids) THEN i + batch_size ELSE Len(ids))

(* The loop body without the break: a failed batch is passed over.         *)
loop_body_no_break(result, success, count, b) ==
    IF result # Payload
    THEN [break |-> FALSE, download_success |-> FALSE,
          downloaded_count |-> count]
    ELSE [break |-> FALSE, download_success |-> success,
          downloaded_count |-> count + Len(b)]

(* The loop body counting the batch before the test of the result.         *)
loop_body_count_first(result, success, count, b) ==
    IF result # Payload
    THEN [break |-> TRUE, download_success |-> FALSE,
          downloaded_count |-> count + Len(b)]
    ELSE [break |-> FALSE, download_success |-> success,
          downloaded_count |-> count + Len(b)]

(* Lines 502-505, after the call for batch b has returned result: a falsy  *)
(* result clears the flag and leaves the loop, any other is counted.       *)
loop_body(result, success, count, b) ==
    IF result # Payload
    THEN [break |-> TRUE, download_success |-> FALSE,
          downloaded_count |-> count]
    ELSE [break |-> FALSE, download_success |-> success,
          downloaded_count |-> count + Len(b)]

(* The handler ends with the button showing what.                          *)
ButtonEnds(what) ==
    /\ bpc' = "done"
    /\ outcome' = what
    /\ UNCHANGED <<chapter_ids, batch_i, download_success, downloaded_count>>

(* The handler going on to the chapters query whatever the add mutation    *)
(* returned.                                                               *)
AfterAdd_go_on(result) ==
    /\ bpc' = "chapters"
    /\ UNCHANGED <<chapter_ids, batch_i, download_success, downloaded_count,
                   outcome>>

(* Lines 437-443: the add mutation returned result.                        *)
AfterAdd(result) ==
    \E updateManga \in BOOLEAN :
       IF result = Payload /\ updateManga
       THEN /\ bpc' = "chapters"
            /\ UNCHANGED <<chapter_ids, batch_i, download_success,
                           downloaded_count, outcome>>
       ELSE ButtonEnds("Failed to Add")

(* Lines 464-497: the chapters query returned result.                      *)
AfterChapters(result) ==
    \E a \in ChaptersAnswers :
       IF result = Payload /\ a.manga /\ a.n > 0
       THEN /\ chapter_ids' = ids_of(a.n)
            /\ download_success' = TRUE
            /\ downloaded_count' = 0
            /\ batch_i' = 0
            /\ bpc' = "batch"
            /\ UNCHANGED outcome
       ELSE ButtonEnds("Added (No Chapters)")

(* The loop going on to the next batch without the sleep of line 506.      *)
AfterBatch_no_sleep(result) ==
    LET r == loop_body(result, download_success, downloaded_count,
                       batch(chapter_ids, batch_i))
    IN /\ download_success' = r.download_success
       /\ downloaded_count' = r.downloaded_count
       /\ batch_i' = IF r.break THEN batch_i ELSE batch_i + batch_size
       /\ bpc' = IF r.break \/ batch_i' >= Len(chapter_ids) THEN "report"
                 ELSE "batch"
       /\ UNCHANGED <<chapter_ids, outcome>>

(* Lines 501-506: the download mutation for the current batch returned.    *)
AfterBatch(result) ==
    LET r == loop_body(result, download_success, downloaded_count,
                       batch(chapter_ids, batch_i))
    IN /\ download_success' = r.download_success
       /\ downloaded_count' = r.downloaded_count
       /\ bpc' = IF r.break THEN "report" ELSE "sleep"
       /\ UNCHANGED <<chapter_ids, batch_i, outcome>>

(* What add_button does in a step of its call of graphql_query (task t): a *)
(* call that starts for a batch has that batch as its chapterIds; when the *)
(* call ends, the handler goes on with the result without suspending, and  *)
(* an exception of the call is caught at line 564.                         *)
add_button(t) ==
    IF bpc \notin ButtonCalls
    THEN UNCHANGED buttonvars
    ELSE /\ submitted' = IF bpc = "batch" /\ pc[t] = "idle"
                         THEN Append(submitted, batch(chapter_ids, batch_i))
                         ELSE submitted
         /\ IF pc'[t] # "idle"
            THEN UNCHANGED <<bpc, chapter_ids, batch_i, download_success,
                             downloaded_count, outcome>>
            ELSE IF ret'[t] = Raised THEN ButtonEnds("Error Occurred")
            ELSE IF bpc = "add" THEN AfterAdd(ret'[t])
            ELSE IF bpc = "chapters" THEN AfterChapters(ret'[t])
            ELSE AfterBatch(ret'[t])

----------------------------------------------------------------------------
(* What the caller of graphql_query does when the call of task t ends in   *)
(* this step: test_graphql_connection computes its result without          *)
(* suspending (it has none while its call is going on); a command handler  *)
(* keeps the value, and add_button goes on with it.                        *)
Caller(t) ==
    /\ IF t \in Probers
       THEN IF pc'[t] = "idle"
            THEN \E about \in AboutServer :
                    health' = test_graphql_connection(ret'[t], about)
            ELSE health' = NoCall
       ELSE health' = health
    /\ IF t = "command" THEN add_button(t) ELSE UNCHANGED buttonvars
    /\ UNCHANGED <<lifevars, searchvars, configvars>>

(* An iteration of the loop that runs although the loop was never started. *)
iteration_due_unstarted(t) == TRUE

(* Lines 324-328: an iteration of refresh_graphql_task runs only in the    *)
(* task that start() created, after before_loop has returned.              *)
iteration_due(t) == t \in Probers => loop_task = "running"

(* graphql_query up to its first request, lines 231-272.                   *)
graphql_query_begin(t, createOk) ==
    /\ pc[t] = "idle"
    /\ calls' = calls + 1
    /\ LET eps == build_endpoints(working_endpoint)
           r == ensure_session(Bot, createOk)
       IN /\ endpoints' = [endpoints EXCEPT ![t] = eps]
          /\ sticky0' = [sticky0 EXCEPT ![t] = working_endpoint]
          /\ nresp' = [nresp EXCEPT ![t] = 0]
          /\ last' = [last EXCEPT ![t] = None]
          /\ failed_sticky' = [failed_sticky EXCEPT ![t] = None]
          /\ IF r.raised
             THEN /\ idx' = [idx EXCEPT ![t] = 0]
                  /\ sent' = [sent EXCEPT ![t] = <<>>]
                  /\ pc' = [pc EXCEPT ![t] = "idle"]
                  /\ ret' = [ret EXCEPT ![t] = Raised]
                  /\ UNCHANGED <<session, nhandles, open, lsession,
                                 working_endpoint>>
             ELSE LET n == next_request(eps, 1, r, r.session, createOk) IN
                  /\ SetBot(n.bot)
                  /\ lsession' = [lsession EXCEPT ![t] = n.ls]
                  /\ idx' = [idx EXCEPT ![t] = n.idx]
                  /\ sent' = [sent EXCEPT ![t] = <<eps[n.idx]>>]
                  /\ pc' = [pc EXCEPT ![t] = "await"]
                  /\ ret' = [ret EXCEPT ![t] = NoCall]
                  /\ UNCHANGED working_endpoint
    /\ UNCHANGED shutdown
    /\ Caller(t)

(* A command or an iteration of the refresh loop calls graphql_query.      *)
Start(t, createOk) ==
    /\ calls < MaxCalls
    /\ iteration_due(t)
    /\ graphql_query_begin(t, createOk)

(* A 404 after which the same candidate is requested again.                *)
NotFound_retry(t, createOk) ==
    /\ pc[t] = "await"
    /\ Note(t, "404", TRUE)
    /\ GoOn(t, endpoints[t], idx[t], Bot, lsession[t], createOk)
    /\ UNCHANGED <<shutdown, calls, endpoints, sticky0>>
    /\ Caller(t)

(* A 404 that ends the call instead of going on.                           *)
NotFound_return(t, createOk) ==
    /\ pc[t] = "await"
    /\ Note(t, "404", TRUE)
    /\ Return(t, None)
    /\ UNCHANGED <<working_endpoint, session, nhandles, open, lsession,
                   shutdown, calls, endpoints, sticky0>>
    /\ Caller(t)

(* Lines 278-280: status 404, continue.                                    *)
NotFound(t, createOk) ==
    /\ pc[t] = "await"
    /\ Note(t, "404", TRUE)
    /\ GoOn(t, endpoints[t], idx[t] + 1, Bot, lsession[t], createOk)
    /\ UNCHANGED <<shutdown, calls, endpoints, sticky0>>
    /\ Caller(t)

(* The name under which a parsed body is recorded in last.                 *)
BodyKind(body) ==
    IF body.errors
    THEN IF body.data = None THEN "errors" ELSE "partial"
    ELSE IF body.data = None THEN "empty" ELSE "data"

(* Ok200 returning None as soon as the body has an "errors" key.           *)
Ok200_errors_return(t, body) ==
    /\ pc[t] = "await"
    /\ Note(t, BodyKind(body), FALSE)
    /\ IF body.errors
       THEN /\ Return(t, None)
            /\ UNCHANGED working_endpoint
       ELSE /\ working_endpoint' = graphql_url(t)
            /\ Return(t, body.data)
    /\ UNCHANGED <<session, nhandles, open, shutdown, calls, endpoints,
                   lsession, sticky0>>
    /\ Caller(t)

(* Ok200 going on to the next candidate when the body has errors and no    *)
(* data.                                                                   *)
Ok200_errors_continue(t, body) ==
    /\ pc[t] = "await"
    /\ Note(t, BodyKind(body), FALSE)
    /\ IF body.errors /\ body.data = None
       THEN GoOn(t, endpoints[t], idx[t] + 1, Bot, lsession[t], TRUE)
       ELSE /\ working_endpoint' = graphql_url(t)
            /\ Return(t, body.data)
            /\ UNCHANGED <<session, nhandles, open, lsession>>
    /\ UNCHANGED <<shutdown, calls, endpoints, sticky0>>
    /\ Caller(t)

(* Lines 282-293: status 200 and a body that parses to a JSON object.      *)
Ok200(t, body) ==
    /\ pc[t] = "await"
    /\ Note(t, BodyKind(body), FALSE)
    /\ IF body.errors /\ body.data = None
       THEN /\ Return(t, None)
            /\ UNCHANGED working_endpoint
       ELSE /\ working_endpoint' = graphql_url(t)
            /\ Return(t, body.data)
    /\ UNCHANGED <<session, nhandles, open, shutdown, calls, endpoints,
                   lsession, sticky0>>
    /\ Caller(t)

(* Lines 294-297: another status (401, 500, ...): logged, and the loop     *)
(* body ends, so the loop goes on with the next candidate.                 *)
StatusError(t, createOk) ==
    /\ pc[t] = "await"
    /\ Note(t, "status", TRUE)
    /\ GoOn(t, endpoints[t], idx[t] + 1, Bot, lsession[t], createOk)
    /\ UNCHANGED <<shutdown, calls, endpoints, sticky0>>
    /\ Caller(t)

(* Lines 299-301: asyncio.TimeoutError, continue.                          *)
Timeout(t, createOk) ==
    /\ pc[t] = "await"
    /\ Note(t, "timeout", TRUE)
    /\ GoOn(t, endpoints[t], idx[t] + 1, Bot, lsession[t], createOk)
    /\ UNCHANGED <<shutdown, calls, endpoints, sticky0>>
    /\ Caller(t)

(* Lines 302-307: aiohttp.ClientError (connection refused or reset, and    *)
(* ContentTypeError of response.json()): self.session = None, then         *)
(* ensure_session; an exception of ensure_session here leaves the call.    *)
(* The handler without "self.session = None".                              *)
reset_session_keep(b, createOk) ==
    ensure_session(b, createOk)

reset_session(b, createOk) ==
    ensure_session([b EXCEPT !.session = NoSession], createOk)

ClientError(t, createOk) ==
    /\ pc[t] = "await"
    /\ Note(t, "clienterror", TRUE)
    /\ LET r == reset_session(Bot, createOk) IN
       IF r.raised
       THEN /\ session' = NoSession
            /\ Return(t, Raised)
            /\ UNCHANGED <<nhandles, open, lsession, working_endpoint>>
       ELSE GoOn(t, endpoints[t], idx[t] + 1, r, r.session, createOk)
    /\ UNCHANGED <<shutdown, calls, endpoints, sticky0>>
    /\ Caller(t)

(* Lines 308-310: any other exception (a body that is not JSON, or JSON    *)
(* that is not an object), continue.                                       *)
OtherException(t, createOk) ==
    /\ pc[t] = "await"
    /\ Note(t, "exception", TRUE)
    /\ GoOn(t, endpoints[t], idx[t] + 1, Bot, lsession[t], createOk)
    /\ UNCHANGED <<shutdown, calls, endpoints, sticky0>>
    /\ Caller(t)

(* close() that leaves the session handle as it is.                       *)
close_session_noop(b) == b.open

(* Lines 339-341 (and 358-359 of main): the handle is closed when there is *)
(* one and it is not closed yet; self.session keeps referring to it.       *)
close_session(b) ==
    IF b.session # NoSession /\ b.session \in b.open
    THEN b.open \ {b.session} ELSE b.open

(* close(), lines 335-343, called when the bot shuts down; nothing in it   *)
(* touches refresh_graphql_task.                                           *)
Close ==
    /\ ~shutdown
    /\ shutdown' = TRUE
    /\ open' = close_session(Bot)
    /\ UNCHANGED <<working_endpoint, session, nhandles, calls, pc, endpoints,
                   idx, lsession, sticky0, sent, nresp, last, failed_sticky,
                   ret, ready, token_refresh_task_running, loop_task, health,
                   searchvars, buttonvars, configvars>>

(* on_ready starting the loop whatever the flag says.                      *)
OnReady_restart ==
    /\ ~shutdown
    /\ ready' = TRUE
    /\ loop_task' = "waiting"
    /\ token_refresh_task_running' = TRUE
    /\ UNCHANGED <<gatewayvars, health, searchvars, buttonvars, configvars>>

(* on_ready, lines 109-154: the host has signalled readiness; the refresh  *)
(* loop is started unless the flag says it already was.                    *)
OnReady ==
    /\ ~shutdown
    /\ ready' = TRUE
    /\ IF ~token_refresh_task_running
       THEN /\ loop_task' = "waiting"
            /\ token_refresh_task_running' = TRUE
       ELSE UNCHANGED <<loop_task, token_refresh_task_running>>
    /\ UNCHANGED <<gatewayvars, health, searchvars, buttonvars, configvars>>

(* before_refresh_task, lines 330-333: the loop's task waits until the bot *)
(* is ready, then the iterations begin.                                    *)
before_refresh_task ==
    /\ loop_task = "waiting"
    /\ ready
    /\ loop_task' = "running"
    /\ UNCHANGED <<gatewayvars, ready, token_refresh_task_running, health,
                   searchvars, buttonvars, configvars>>

(* The answer to the request task t waits for.                             *)
Answer(t, createOk) ==
    \/ NotFound(t, createOk)
    \/ \E body \in Bodies : Ok200(t, body)
    \/ StatusError(t, createOk)
    \/ Timeout(t, createOk)
    \/ ClientError(t, createOk)
    \/ OtherException(t, createOk)

(* The ClientSession constructor does no I/O and returns.                  *)
Next ==
    \/ \E t \in Tasks : Start(t, TRUE) \/ Answer(t, TRUE)
    \/ Close
    \/ OnReady
    \/ before_refresh_task

Spec == Init /\ [][Next]_vars

(* The same program when the ClientSession constructor may raise.          *)
NextFault ==
    \/ \E t \in Tasks, createOk \in BOOLEAN :
          Start(t, createOk) \/ Answer(t, createOk)
    \/ Close
    \/ OnReady
    \/ before_refresh_task

SpecFault == Init /\ [][NextFault]_vars

(* Every request ends: session.post carries ClientTimeout(total=15).       *)
LiveSpec == Spec /\ \A t \in Tasks : WF_vars(Answer(t, TRUE))

----------------------------------------------------------------------------
(* add_button as the only task: the steps of the handler between its       *)
(* calls of graphql_query.                                                 *)

(* Lines 409-417: the button is pressed; the interaction is deferred and   *)
(* the view is edited before the first call.                               *)
Click ==
    /\ bpc = "idle"
    /\ bpc' = "add"
    /\ UNCHANGED <<chapter_ids, batch_i, download_success, downloaded_count,
                   submitted, outcome>>
    /\ UNCHANGED <<gatewayvars, lifevars, health, searchvars, configvars>>

(* Lines 435, 464 and 501: the handler calls graphql_query.                *)
ButtonCall ==
    /\ bpc \in ButtonCalls
    /\ graphql_query_begin("command", TRUE)

(* The loop going on with the same i after the sleep.                      *)
Sleep_same_i ==
    /\ bpc = "sleep"
    /\ bpc' = "batch"
    /\ UNCHANGED <<chapter_ids, batch_i, download_success, downloaded_count,
                   submitted, outcome>>
    /\ UNCHANGED <<gatewayvars, lifevars, health, searchvars, configvars>>

(* Lines 499 and 506: asyncio.sleep(0.5) returns and the loop goes on with *)
(* the next i of range(0, len(chapter_ids), batch_size), if there is one.  *)
Sleep ==
    /\ bpc = "sleep"
    /\ batch_i' = batch_i + batch_size
    /\ bpc' = IF batch_i' < Len(chapter_ids) THEN "batch" ELSE "report"
    /\ UNCHANGED <<chapter_ids, download_success, downloaded_count,
                   submitted, outcome>>
    /\ UNCHANGED <<gatewayvars, lifevars, health, searchvars, configvars>>

(* Lines 509-562: the button and the embed show how the loop ended.        *)
Report ==
    /\ bpc = "report"
    /\ bpc' = "done"
    /\ outcome' = IF download_success THEN "Added & Queued"
                  ELSE "Added (Queued)"
    /\ UNCHANGED <<chapter_ids, batch_i, download_success, downloaded_count,
                   submitted>>
    /\ UNCHANGED <<gatewayvars, lifevars, health, searchvars, configvars>>

ButtonNext ==
    \/ Click
    \/ ButtonCall
    \/ Answer("command", TRUE)
    \/ Sleep
    \/ Report

ButtonSpec == Init /\ [][ButtonNext]_vars

----------------------------------------------------------------------------
(* The construction of Config over the environments the process can be     *)
(* started in.                                                             *)

(* Bounds: the slashes that end a URL, and the length of a GUILD_ID.       *)
MaxSlashes == 2
MaxGuildLen == 2

Repeat(c, n) == [k \in 1..n |-> c]

Tokens == {Unset, Value(<<>>), Value(<<"t">>)}

(* A URL: a core, then slashes, perhaps in quotes, perhaps in whitespace.  *)
UrlCores ==
    {<<>>, <<"h">>, Http, Http \o <<"h">>, Https \o <<"h">>,
     <<"f", "t", "p", ":", "/", "/", "h">>, Http \o <<"h", "'", "h">>}

Urls ==
    {Unset} \cup
    {Value(Repeat(" ", a) \o q1 \o core \o Repeat("/", n) \o q2
           \o Repeat(" ", b)) :
        a \in 0..1, b \in 0..1, q1 \in {<<>>, <<"\"">>, <<"'">>},
        q2 \in {<<>>, <<"\"">>, <<"'">>}, core \in UrlCores,
        n \in 0..MaxSlashes}

Keys ==
    {Unset, Value(<<>>), Value(<<"k">>), Value(<<" ", "k", " ">>),
     Value(<<"\"", "k", "\"">>), Value(<<"'", "'">>), Value(<<" ">>)}

Guilds ==
    {Unset} \cup
    {Value(g) : g \in UNION {[1..n -> {"7", "_", "-", " ", "x"}] :
                             n \in 0..MaxGuildLen}}

(* Every token and URL with some keys and guild ids, and every key and     *)
(* guild id with some tokens and URLs.                                     *)
Envs ==
    [DISCORD_TOKEN : Tokens, SUWAYOMI_URL : Urls,
     SUWAYOMI_API_KEY : {Unset, Value(<<"k">>), Value(<<"'", "'">>)},
     GUILD_ID : {Unset, Value(<<"7">>)}]
    \cup
    [DISCORD_TOKEN : {Value(<<"t">>)},
     SUWAYOMI_URL : {Value(Http \o <<"h">>), Value(<<"h">>)},
     SUWAYOMI_API_KEY : Keys, GUILD_ID : Guilds]

ConfigInit ==
    /\ BotInit
    /\ env \in Envs
    /\ config = NoConfig

(* Line 67 (and line 348): Config() is called once when the bot is made.   *)
Construct ==
    /\ config = NoConfig
    /\ config' = Config(env)
    /\ UNCHANGED <<env, gatewayvars, lifevars, health, searchvars, buttonvars>>

ConfigNext == Construct

ConfigSpec == ConfigInit /\ [][ConfigNext]_vars

----------------------------------------------------------------------------
(* search_manga of the cog (src/cogs/suwayomi.py, lines 1609-1760).  The   *)
(* handler suspends in the sources query, in the per-source call of        *)
(* graphql_query, in status_message.edit and in asyncio.sleep; what        *)
(* graphql_query gives it is one of the results established above (None,   *)
(* a payload, or an exception), and the shape of a payload is the          *)
(* server's choice.                                                        *)

(* Bounds: the length of a short list sources (only in a search over a     *)
(* short list do sources answer with manga; the sources of the long list   *)
(* fail or answer with an empty list), the length of the long list, the    *)
(* manga found over all sources, the option limit, and the length of the   *)
(* lists of nodes in which isNsfw varies (longer lists have no NSFW node). *)
MaxShort == 5
MaxSources == 21
MaxHits == 3
MaxLimit == 2
MaxNsfwList == 2

(* Line 1663, sources[:20].                                                *)
SourceCap == 20

(* Line 1703, the status is updated when sources_searched % 5 == 0.        *)
ProgressEvery == 5

(* The manga the sources know: title and inLibrary.                        *)
Mangas == {[title |-> "Bar", inLibrary |-> FALSE],
           [title |-> "Foo", inLibrary |-> FALSE],
           [title |-> "foo", inLibrary |-> TRUE]}

(* str.lower() on these titles.                                            *)
lower(title) ==
    CASE title = "Bar" -> "bar"
      [] title = "Foo" -> "foo"
      [] title = "foo" -> "foo"

(* The order of Python's str comparison (by code point) on these titles:   *)
(* "Bar" < "Foo" < "foo".                                                  *)
TitleRank(title) ==
    CASE title = "Bar" -> 1
      [] title = "Foo" -> 2
      [] title = "foo" -> 3

Min(a, b) == IF a <= b THEN a ELSE b

(* The lengths of the list sources: short lists, and one list longer than  *)
(* the cap of line 1663.                                                   *)
Lengths == (0..MaxShort) \cup {MaxSources}

SeqUpTo(S, n) == UNION {[1..k -> S] : k \in 0..n}

(* What the per-source call and the reading of its result can give:        *)
(*   "None"        graphql_query returned None;                            *)
(*   "Raised"      graphql_query raised;                                   *)
(*   "nofetch"     a payload whose fetchSourceManga is absent or null;     *)
(*   "nullmangas"  fetchSourceManga with "mangas": null, so that           *)
(*                 mangas[:limit] raises TypeError;                        *)
(*   "mangas"      fetchSourceManga with a list of manga (the default []   *)
(*                 when the key is absent).                                *)
SearchResults(room) ==
    {[kind |-> k, mangas |-> <<>>] :
        k \in {"None", "Raised", "nofetch", "nullmangas"}}
    \cup {[kind |-> "mangas", mangas |-> m] : m \in SeqUpTo(Mangas, room)}

(* The result leaves the try block through an exception before the hits    *)
(* are appended.                                                           *)
Raising == {"Raised", "nullmangas"}

(* The result is not usable: line 1692 is false.                           *)
Unusable == {"None", "nofetch"}

(* The loop over every source of the list.                                 *)
prefix_all(srcs) == srcs

(* Line 1663: sources[:20].                                                *)
prefix(srcs) == SubSeq(srcs, 1, Min(Len(srcs), SourceCap))

(* Every manga of the payload, each with its source.                       *)
hits_of_all(ms, lim, source) ==
    [k \in 1..Len(ms) |->
        [title |-> ms[k].title, inLibrary |-> ms[k].inLibrary,
         source |-> source]]

(* Lines 1696-1698: mangas[:limit], each with its source.                  *)
hits_of(ms, lim, source) ==
    [k \in 1..Min(Len(ms), lim) |->
        [title |-> ms[k].title, inLibrary |-> ms[k].inLibrary,
         source |-> source]]

(* The duplicate removal comparing the titles as they are.                 *)
RECURSIVE dedup_exact(_, _, _)
dedup_exact(results, seen_titles, acc) ==
    IF results = <<>> THEN acc
    ELSE LET manga == Head(results) IN
         IF manga.title \in seen_titles
         THEN dedup_exact(Tail(results), seen_titles, acc)
         ELSE dedup_exact(Tail(results), seen_titles \cup {manga.title},
                          Append(acc, manga))

(* Lines 1726-1733: the first occurrence of each lower-cased title.        *)
RECURSIVE dedup(_, _, _)
dedup(results, seen_titles, acc) ==
    IF results = <<>> THEN acc
    ELSE LET manga == Head(results)
             title_lower == lower(manga.title)
         IN IF title_lower \in seen_titles
            THEN dedup(Tail(results), seen_titles, acc)
            ELSE dedup(Tail(results), seen_titles \cup {title_lower},
                       Append(acc, manga))

(* The key without its first component: the title alone.                   *)
KeyLess_title_only(a, b) == TitleRank(a.title) < TitleRank(b.title)

(* Line 1736: the key (not inLibrary, title) of a before that of b.        *)
KeyLess(a, b) ==
    IF a.inLibrary # b.inLibrary THEN a.inLibrary
    ELSE TitleRank(a.title) < TitleRank(b.title)

(* x placed before the first element whose key is greater.                 *)
RECURSIVE Insert(_, _)
Insert(x, sorted) ==
    IF sorted = <<>> THEN <<x>>
    ELSE IF KeyLess(x, Head(sorted)) THEN <<x>> \o sorted
    ELSE <<Head(sorted)>> \o Insert(x, Tail(sorted))

(* list.sort with that key: a stable sort.                                 *)
RECURSIVE sort(_, _)
sort(results, acc) ==
    IF results = <<>> THEN acc
    ELSE sort(Tail(results), Insert(Head(results), acc))

(* What the sources query can give: "None" (graphql_query returned None,   *)
(* or a payload without sources or with null nodes), or the list of nodes, *)
(* here the isNsfw flag of each; the id of a node is its position.         *)
NodeLists ==
    UNION {IF n <= MaxNsfwList THEN [1..n -> BOOLEAN]
           ELSE {[k \in 1..n |-> FALSE]} : n \in Lengths}

SourcesAnswers ==
    {[kind |-> "None", nodes |-> <<>>]}
    \cup {[kind |-> "nodes", nodes |-> f] : f \in NodeLists}

(* The sources as they would be without the filter of lines 1646-1649.     *)
usable_sources_unfiltered(nodes, nsfw) == [k \in 1..Len(nodes) |-> k]

(* Lines 1643-1649: every source when include_nsfw, otherwise the sources  *)
(* that are not NSFW, in the order of the nodes.                           *)
usable_sources(nodes, nsfw) ==
    LET RECURSIVE keep(_)
        keep(k) == IF k > Len(nodes) THEN <<>>
                   ELSE IF nsfw \/ ~nodes[k] THEN <<k>> \o keep(k + 1)
                   ELSE keep(k + 1)
    IN keep(1)

(* Lines 1620-1637: the options are read and the sources query is sent.    *)
SearchBegin(lim, nsfw) ==
    /\ spc = "idle"
    /\ limit' = lim
    /\ include_nsfw' = nsfw
    /\ spc' = "sources"
    /\ UNCHANGED <<sources_data, all_sources, sources, si, search_data,
                   mangas, all_results, sources_searched, gcalls,
                   unique_results>>
    /\ UNCHANGED <<gatewayvars, lifevars, health, buttonvars, configvars>>

(* Lines 1637-1661: the sources query returns.  Without nodes (None, or an *)
(* empty list) "Failed to fetch sources." is sent and the handler returns; *)
(* otherwise the sources are filtered and the first status is sent.        *)
SourcesReturn(data) ==
    /\ spc = "sources"
    /\ sources_data' = data.kind
    /\ all_sources' = data.nodes
    /\ IF data.kind = "None" \/ data.nodes = <<>>
       THEN /\ spc' = "failed"
            /\ UNCHANGED sources
       ELSE /\ spc' = "loop"
            /\ sources' = usable_sources(data.nodes, include_nsfw)
    /\ UNCHANGED <<include_nsfw, limit, si, search_data, mangas, all_results,
                   sources_searched, gcalls, unique_results>>
    /\ UNCHANGED <<gatewayvars, lifevars, health, buttonvars, configvars>>

(* Lines 1663-1690: the next source of the prefix, and the call of         *)
(* graphql_query for it.                                                   *)
SearchCall ==
    /\ spc \in {"loop", "sleep"}
    /\ si < Len(prefix(sources))
    /\ si' = si + 1
    /\ gcalls' = Append(gcalls, prefix(sources)[si + 1])
    /\ spc' = "call"
    /\ UNCHANGED <<include_nsfw, sources_data, all_sources, sources, limit,
                   search_data, all_results, sources_searched,
                   unique_results,
                   mangas>>
    /\ UNCHANGED <<gatewayvars, lifevars, health, buttonvars, configvars>>

(* SearchReturn without the try statement: an exception leaves the         *)
(* handler.                                                                *)
SearchReturn_abort(res) ==
    /\ spc = "call"
    /\ res.mangas # <<>> => Len(sources) <= MaxShort
    /\ search_data' = res.kind
    /\ mangas' = IF res.kind = "mangas" THEN res.mangas
                 ELSE IF res.kind = "nullmangas" THEN <<>> ELSE mangas
    /\ IF res.kind \in Raising
       THEN /\ spc' = "done"
            /\ UNCHANGED <<all_results, sources_searched>>
       ELSE /\ all_results' =
                 IF res.kind = "mangas"
                 THEN all_results \o hits_of(res.mangas, limit, sources[si])
                 ELSE all_results
            /\ sources_searched' = sources_searched + 1
            /\ spc' = IF sources_searched' % ProgressEvery = 0
                      THEN "edit" ELSE "sleep"
    /\ UNCHANGED <<include_nsfw, sources_data, all_sources, sources, limit,
                   si, gcalls, unique_results>>
    /\ UNCHANGED <<gatewayvars, lifevars, health, buttonvars, configvars>>

(* Lines 1686-1713: the call returns or raises; the hits are appended, the *)
(* source is counted, and every fifth counted source the status is         *)
(* updated; an exception is logged and the loop continues.                 *)
SearchReturn(res) ==
    /\ spc = "call"
    /\ res.mangas # <<>> => Len(sources) <= MaxShort
    /\ search_data' = res.kind
    /\ mangas' = IF res.kind = "mangas" THEN res.mangas
                 ELSE IF res.kind = "nullmangas" THEN <<>> ELSE mangas
    /\ IF res.kind \in Raising
       THEN /\ spc' = "loop"
            /\ UNCHANGED <<all_results, sources_searched>>
       ELSE /\ all_results' =
                 IF res.kind = "mangas"
                 THEN all_results \o hits_of(res.mangas, limit, sources[si])
                 ELSE all_results
            /\ sources_searched' = sources_searched + 1
            /\ spc' = IF sources_searched' % ProgressEvery = 0
                      THEN "edit" ELSE "sleep"
    /\ UNCHANGED <<include_nsfw, sources_data, all_sources, sources, limit,
                   si, gcalls, unique_results>>
    /\ UNCHANGED <<gatewayvars, lifevars, health, buttonvars, configvars>>

(* Lines 1704-1713: status_message.edit returns, and the handler sleeps;   *)
(* or it raises (the message is gone, Discord answers with an error), and  *)
(* the loop continues without the sleep.                                   *)
EditDone(ok) ==
    /\ spc = "edit"
    /\ spc' = IF ok THEN "sleep" ELSE "loop"
    /\ UNCHANGED <<include_nsfw, sources_data, all_sources, sources, limit,
                   si, search_data, all_results, sources_searched, gcalls,
                   unique_results,
                   mangas>>
    /\ UNCHANGED <<gatewayvars, lifevars, health, buttonvars, configvars>>

(* Lines 1715-1760: after the loop; without results the "No Results"       *)
(* status is sent, otherwise the duplicates are removed and the list is    *)
(* sorted.                                                                 *)
Finish ==
    /\ spc \in {"loop", "sleep"}
    /\ si = Len(prefix(sources))
    /\ spc' = "done"
    /\ unique_results' =
         IF all_results = <<>> THEN <<>>
         ELSE sort(dedup(all_results, {}, <<>>), <<>>)
    /\ UNCHANGED <<include_nsfw, sources_data, all_sources, sources, limit,
                   si, search_data, all_results, sources_searched, gcalls,
                   mangas>>
    /\ UNCHANGED <<gatewayvars, lifevars, health, buttonvars, configvars>>

SearchNext ==
    \/ \E lim \in 1..MaxLimit, nsfw \in BOOLEAN : SearchBegin(lim, nsfw)
    \/ \E data \in SourcesAnswers : SourcesReturn(data)
    \/ SearchCall
    \/ \E res \in SearchResults(MaxHits - Len(all_results)) : SearchReturn(res)
    \/ \E ok \in BOOLEAN : EditDone(ok)
    \/ Finish

SearchSpec == Init /\ [][SearchNext]_vars

(* One interaction with the cog: a search, or a press of the button.       *)
InteractionNext ==
    \/ bpc = "idle" /\ SearchNext
    \/ spc = "idle" /\ ButtonNext

InteractionSpec == Init /\ [][InteractionNext]_vars

----------------------------------------------------------------------------
(* Properties of graphql_query ("execute").                                *)

(* This step hands task t the end of its pending request.                  *)
Responds(t) == pc[t] = "await" /\ nresp'[t] = nresp[t] + 1

(* This step is the entry of task t into graphql_query.                    *)
Starts(t) == pc[t] = "idle" /\ calls' = calls + 1 /\ pc'[t] = "await"

(* Outcomes of a request after which the loop goes on.                     *)
Failures == {"404", "status", "timeout", "clienterror", "exception"}

(* The order in which a call that read sticky endpoint s has to try the    *)
(* URLs: s first when set, then the configured URLs other than s.          *)
WantedOrder(s) ==
    IF s = None THEN <<ApiGraphql, Graphql>>
    ELSE IF s = ApiGraphql THEN <<ApiGraphql, Graphql>>
    ELSE <<s, ApiGraphql>>

(* C1: within one call the requests go to the sticky endpoint first (when  *)
(* it is set) and then to the configured candidates not yet listed, in     *)
(* that order, and no URL is requested twice.                              *)
C1_TriedInOrderOnce ==
    \A t \in Tasks :
        /\ Len(sent[t]) <= Len(WantedOrder(sticky0[t]))
        /\ \A i \in 1..Len(sent[t]) : sent[t][i] = WantedOrder(sticky0[t])[i]
        /\ \A i, j \in 1..Len(sent[t]) : sent[t][i] = sent[t][j] => i = j

C1_Witness ==
    \E t \in Tasks : sticky0[t] = Graphql /\ sent[t] = <<Graphql, ApiGraphql>>

C3_DataIsStickyAndReturned ==
    [][\A t \in Tasks :
        (Responds(t) /\ last'[t] \in {"data", "partial"})
           => /\ working_endpoint' = graphql_url(t)
              /\ ret'[t] = Payload
              /\ pc'[t] = "idle"
              /\ sent'[t] = sent[t]]_vars

C3_Witness ==
    \E t \in Tasks :
        /\ pc[t] = "idle"
        /\ last[t] = "partial"
        /\ ret[t] = Payload
        /\ sent[t] = <<ApiGraphql>>
        /\ endpoints[t] = <<ApiGraphql, Graphql>>
        /\ working_endpoint = ApiGraphql

(* C4: a 200 answer whose body reports errors and carries no usable data   *)
(* ends the call with None at once; no further request is sent.            *)
C4_ErrorsEndTheCall ==
    [][\A t \in Tasks :
        (Responds(t) /\ last'[t] = "errors")
           => /\ ret'[t] = None
              /\ pc'[t] = "idle"
              /\ sent'[t] = sent[t]]_vars

C4_Witness ==
    \E t \in Tasks :
        /\ pc[t] = "idle"
        /\ last[t] = "errors"
        /\ ret[t] = None
        /\ sent[t] = <<ApiGraphql>>
        /\ endpoints[t] = <<ApiGraphql, Graphql>>

(* C5: after a 404 the request goes to the next candidate whenever one     *)
(* remains; a 404 ends the call only as the answer of the last candidate.  *)
C5_NotFoundGoesOn ==
    [][\A t \in Tasks :
        (Responds(t) /\ last'[t] = "404" /\ idx[t] < Len(endpoints[t]))
           => /\ pc'[t] = "await"
              /\ sent'[t] = Append(sent[t], endpoints[t][idx[t] + 1])]_vars

C5_Witness ==
    \E t \in Tasks :
        /\ pc[t] = "await"
        /\ last[t] = "404"
        /\ nresp[t] = 1
        /\ sent[t] = <<ApiGraphql, Graphql>>

(* The session after this step is a handle created in this step.           *)
NewSession ==
    /\ nhandles' = nhandles + 1
    /\ session' = nhandles'
    /\ session' \in open'

(* The call of t sends its next request whenever a candidate remains.      *)
GoesOn(t) ==
    idx[t] < Len(endpoints[t])
       => /\ pc'[t] = "await"
          /\ sent'[t] = Append(sent[t], endpoints[t][idx[t] + 1])

(* C6 as stated: after a timeout as well as after a connection fault the   *)
(* session is replaced by a newly created handle and the call goes on to   *)
(* the next candidate.                                                     *)
C6_AsStated ==
    [][\A t \in Tasks :
        (Responds(t) /\ last'[t] \in {"timeout", "clienterror"})
           => NewSession /\ GoesOn(t)]_vars

(* C6 as amended: after a connection fault (aiohttp.ClientError) the       *)
(* session is replaced by a newly created handle, which the call uses from *)
(* then on, and the call goes on to the next candidate; after a timeout    *)
(* the call goes on to the next candidate too, but no handle is created    *)
(* and self.session stays as it is as long as the handle the call uses is  *)
(* open.                                                                   *)
C6_FaultResetsTimeoutKeeps ==
    [][\A t \in Tasks :
        /\ (Responds(t) /\ last'[t] = "clienterror")
              => /\ NewSession
                 /\ pc'[t] = "await" => lsession'[t] = session'
                 /\ GoesOn(t)
        /\ (Responds(t) /\ last'[t] = "timeout")
              => /\ GoesOn(t)
                 /\ lsession[t] \in open
                       => UNCHANGED <<session, nhandles, open>>]_vars

C6_Witness ==
    \E t, u \in Tasks :
        /\ pc[t] = "await"
        /\ last[t] = "clienterror"
        /\ nresp[t] = 1
        /\ Len(sent[t]) = 2
        /\ lsession[t] = session
        /\ session = 2
        /\ pc[u] = "await"
        /\ last[u] = "timeout"
        /\ lsession[u] = 1

(* C7: when the answer of the last candidate is a failure too, every       *)
(* candidate has been tried, the call returns None and the sticky endpoint *)
(* is unset at that moment.                                                *)
C7_ExhaustedClearsSticky ==
    [][\A t \in Tasks :
        (Responds(t) /\ last'[t] \in Failures /\ idx[t] = Len(endpoints[t]))
           => /\ sent[t] = endpoints[t]
              /\ pc'[t] = "idle"
              /\ ret'[t] = None
              /\ working_endpoint' = None]_vars

C7_Witness ==
    \E t \in Tasks :
        /\ pc[t] = "idle"
        /\ ret[t] = None
        /\ sticky0[t] = ApiGraphql
        /\ sent[t] = <<ApiGraphql, Graphql>>
        /\ nresp[t] = 2
        /\ last[t] \in Failures
        /\ working_endpoint = None

(* C8: when a request to the URL that is the sticky endpoint at that       *)
(* moment fails inside a call, the sticky endpoint is not that URL when    *)
(* the call returns.                                                       *)
C8_FailedStickyIsDropped ==
    [][\A t \in Tasks :
        (Responds(t) /\ pc'[t] = "idle" /\ failed_sticky'[t] # None)
           => working_endpoint' # failed_sticky'[t]]_vars

(* C9: whatever a request ends with, and also when the creation of the     *)
(* new session fails, the call goes on or returns a payload or None.       *)
C9_NeverRaises ==
    [][\A t \in Tasks :
        (Responds(t) /\ pc'[t] = "idle") => ret'[t] \in {Payload, None}]_vars

(* C10: a call sends at most one request per candidate, two in all, and    *)
(* every call that has been started returns.                               *)
C10_Terminates ==
    /\ [][\A t \in Tasks :
            /\ Len(sent'[t]) <= Len(base_endpoints)
            /\ \A i, j \in 1..Len(sent'[t]) :
                   sent'[t][i] = sent'[t][j] => i = j]_vars
    /\ \A t \in Tasks : (pc[t] = "await") ~> (pc[t] = "idle")

C10_Witness ==
    \E t \in Tasks :
        /\ pc[t] = "idle"
        /\ nresp[t] = 2
        /\ Len(sent[t]) = 2
        /\ ret[t] = None
        /\ last[t] = "timeout"

----------------------------------------------------------------------------
(* Properties of the session handle, of close() and of the refresh loop.   *)

(* C11: at most one handle created by the bot is open in any reachable     *)
(* state, and whenever a step creates a handle, the handle that            *)
(* self.session referred to before the step is not open.                   *)
C11_OneOpenHandle ==
    [][/\ Cardinality(open') <= 1
       /\ NewSession => session = NoSession \/ session \notin open]_vars

(* This step has task t call ensure_session with the handle it would use   *)
(* absent or closed, or at the entry of graphql_query: line 261, or line   *)
(* 270 on the way to the next request.  (The call of line 306 follows a    *)
(* reset of self.session and is the subject of C6 and C11.)                *)
CallsEnsureSession(t) ==
    \/ Starts(t)
    \/ /\ Responds(t) /\ pc'[t] = "await"
       /\ last'[t] # "clienterror"
       /\ lsession[t] \notin open

Closes == ~shutdown /\ shutdown'

(* The session state after the session part of close() (lines 339-341; the *)
(* finally of main, lines 358-359, is the same statement).                 *)
Closed(b) == [b EXCEPT !.open = close_session(b)]

(* C13: close() closes the handle self.session refers to when it is open   *)
(* and touches no other part of the session state; in every reachable      *)
(* state a second close() leaves the session state as the first one left   *)
(* it.                                                                     *)
C13_CloseIsIdempotent ==
    /\ [](Closed(Closed(Bot)) = Closed(Bot))
    /\ [][Closes =>
             /\ session' = session /\ nhandles' = nhandles
             /\ session \notin open'
             /\ open' = open \ {session}
             /\ Closed(Bot)' = Bot']_vars

(* close() has run after a request was started: the one handle that was    *)
(* created is closed and self.session still refers to it.                  *)
C13_Witness ==
    /\ shutdown
    /\ nhandles = 1 /\ session = 1
    /\ open = {}

(* C14: the periodic probe calls the Gateway only after the host has       *)
(* signalled readiness: the loop's task exists only once on_ready has run, *)
(* it leaves before_loop only when the bot is ready, and an iteration      *)
(* enters graphql_query only in the running loop.                          *)
C14_NoProbeBeforeReady ==
    [][/\ loop_task' # "unstarted" => ready'
       /\ loop_task = "waiting" /\ loop_task' = "running" => ready
       /\ \A t \in Probers :
             Starts(t) => ready /\ loop_task = "running"]_vars

(* An iteration of the loop is inside its request.                         *)
C14_Witness ==
    /\ ready /\ loop_task = "running"
    /\ pc["refresh"] = "await"

(* C15: once close() has run, the refresh loop is stopped: no scheduled    *)
(* invocation of it remains and no iteration enters graphql_query.         *)
C15_LoopStoppedAfterClose ==
    [][/\ shutdown' => loop_task' \notin {"waiting", "running"}
       /\ shutdown => \A t \in Probers : ~Starts(t)]_vars

(* The call of graphql_query made by test_graphql_connection in task t     *)
(* ends in this step.                                                      *)
ProbeEnds(t) == t \in Probers /\ ret[t] = NoCall /\ ret'[t] # NoCall

(* C16: test_graphql_connection returns a boolean whenever its call of     *)
(* graphql_query ends, and never raises: True when the call returned a     *)
(* payload, False when the call returned None after its last candidate     *)
(* answered 404.                                                           *)
C16_HealthCheckResult ==
    [][\A t \in Tasks : ProbeEnds(t) =>
          /\ health' \in {True, False}
          /\ ret'[t] = Payload => health' = True
          /\ ret'[t] = None /\ last'[t] = "404" => health' = False]_vars

----------------------------------------------------------------------------
(* Properties of search_manga.                                             *)

(* C18: one search calls the Gateway for at most 20 sources, and they are  *)
(* the first sources of the list, in order, however long the list is.      *)
C18_AtMostTwentyCalls ==
    /\ Len(gcalls) <= 20
    /\ Len(gcalls) <= Len(sources)
    /\ gcalls = SubSeq(sources, 1, Len(gcalls))

(* A search over more than 20 sources has ended after 20 calls.            *)
C18_Witness ==
    /\ spc = "done"
    /\ Len(sources) > 20
    /\ Len(gcalls) = 20

(* This step ends the handling of the current source with a failure: the   *)
(* call gave no usable result, or the call, the reading of its result or   *)
(* the status update raised.                                               *)
ReturnsWith(kinds) == spc = "call" /\ spc' # "call" /\ search_data' \in kinds
EditRaises == spc = "edit" /\ spc' = "loop"
SourceFails == ReturnsWith(Unusable \cup Raising) \/ EditRaises

(* The hits accumulated for source id src.                                 *)
HitsFrom(results, src) == {k \in 1..Len(results) : results[k].source = src}

(* The search goes on: the handler is still in its loop, the hits found so *)
(* far are kept, and it ends only when the Gateway was called for every    *)
(* source of the prefix.                                                   *)
SearchGoesOn ==
    /\ spc' \in {"loop", "sleep", "edit"}
    /\ SubSeq(all_results', 1, Len(all_results)) = all_results

AllQueriedAtEnd ==
    spc' = "done" => Len(gcalls') = Min(Len(sources'), 20)

(* C17 as stated: a source whose call yields no usable result, or whose    *)
(* handling raises, contributes no hits, and the search goes on.           *)
C17_AsStated ==
    [][/\ SourceFails =>
            /\ HitsFrom(all_results', sources[si]) = {}
            /\ SearchGoesOn
       /\ AllQueriedAtEnd]_vars

(* C17 as the code has it: a source whose call yields no usable result, or *)
(* whose call or result raises before the hits are appended, contributes   *)
(* no hits; no failure, that of the status update after the hits were      *)
(* appended included, aborts the search or drops a hit: the remaining      *)
(* sources of the prefix are still queried.                                *)
C17_FailureIsIsolated ==
    [][/\ ReturnsWith(Unusable \cup Raising) =>
            HitsFrom(all_results', sources[si]) = {}
       /\ SourceFails => SearchGoesOn
       /\ AllQueriedAtEnd]_vars

(* A search over three sources has ended: the first and the third raised,  *)
(* the hits of the second are there.                                       *)
C17_Witness ==
    /\ spc = "done"
    /\ Len(sources) = 3 /\ gcalls = <<1, 2, 3>>
    /\ sources_searched = 1
    /\ all_results # <<>>
    /\ \A k \in 1..Len(all_results) : all_results[k].source = 2
    /\ search_data \in Raising

(* The entries of all_results that are the first with their title,         *)
(* ignoring case.                                                          *)
FirstOfTitle ==
    {all_results[k] : k \in {j \in 1..Len(all_results) :
        \A i \in 1..(j - 1) :
            lower(all_results[i].title) # lower(all_results[j].title)}}

(* C19: the hits a search ends with contain no two entries whose titles    *)
(* are equal ignoring case, and they are the accumulated hits that come    *)
(* first with their title in source order and then per-source order.       *)
C19_FirstOfEachTitle ==
    spc = "done" =>
       /\ \A i, j \in 1..Len(unique_results) :
             i # j => lower(unique_results[i].title)
                         # lower(unique_results[j].title)
       /\ Range(unique_results) = FirstOfTitle

(* Source 1 failed, source 2 gave Foo and Bar, source 3 gave foo: the      *)
(* search ends with Foo and Bar of source 2.                               *)
C19_Witness ==
    /\ spc = "done"
    /\ sources_searched = 2
    /\ all_results = <<[title |-> "Foo", inLibrary |-> FALSE, source |-> 2],
                       [title |-> "Bar", inLibrary |-> FALSE, source |-> 2],
                       [title |-> "foo", inLibrary |-> TRUE, source |-> 3]>>
    /\ Range(unique_results) =
          {[title |-> "Foo", inLibrary |-> FALSE, source |-> 2],
           [title |-> "Bar", inLibrary |-> FALSE, source |-> 2]}

(* C20: the number of sources a search reports (sources_searched) is the   *)
(* number of sources of the prefix for which the Gateway was called, the   *)
(* sources whose call failed included.                                     *)
C20_AttemptedCountsEveryCall ==
    spc = "done" => sources_searched = Len(gcalls)

(* C21: in the hits a search ends with, every hit that is in the library   *)
(* precedes every hit that is not, and two hits with the same inLibrary    *)
(* flag are in ascending order of their titles (code point order).         *)
C21_TrackedFirstThenTitle ==
    spc = "done" =>
       \A i, j \in 1..Len(unique_results) : i < j =>
          LET a == unique_results[i]
              b == unique_results[j]
          IN /\ ~(b.inLibrary /\ ~a.inLibrary)
             /\ a.inLibrary = b.inLibrary
                   => TitleRank(a.title) <= TitleRank(b.title)

(* The untracked "Bar" was found before the tracked "foo", whose title is  *)
(* the later one; the search ends with "foo" first.                        *)
C21_Witness ==
    /\ spc = "done"
    /\ Len(all_results) = 2
    /\ all_results[1].title = "Bar" /\ all_results[2].title = "foo"
    /\ Len(unique_results) = 2
    /\ unique_results[1].title = "foo" /\ unique_results[1].inLibrary
    /\ unique_results[2].title = "Bar" /\ ~unique_results[2].inLibrary


(* C22: a search whose sources query succeeds and leaves no source to      *)
(* search (no node, or no node that passes the NSFW filter) is not         *)
(* reported as a failure; it goes on to the loop with an empty list of     *)
(* sources, calls no source, and ends with no result and with              *)
(* sources_searched = 0.                                                   *)
NoUsableSource ==
    /\ spc = "sources"
    /\ spc' # "sources"
    /\ sources_data' = "nodes"
    /\ usable_sources(all_sources', include_nsfw) = <<>>

C22_NoUsableSourceIsNoFailure ==
    [][/\ NoUsableSource => spc' = "loop" /\ sources' = <<>>
       /\ spc \in {"loop", "done"} /\ sources = <<>> =>
             /\ spc' \in {"done", spc}
             /\ gcalls' = <<>>
             /\ sources_searched' = 0
             /\ all_results' = <<>>
             /\ unique_results' = <<>>]_vars


(* The batches of a list, one after the other.                             *)
RECURSIVE Concat(_)
Concat(bs) == IF bs = <<>> THEN <<>> ELSE Head(bs) \o Concat(Tail(bs))

(* The loop of add_button has been left at line 509 or later.              *)
LoopEnded == bpc \in {"report", "done"} /\ chapter_ids # <<>>

(* C23: the batches sent are consecutive slices of chapter_ids from the    *)
(* start, each of batch_size ids except a last one that may be shorter     *)
(* and then ends the list; when every call has succeeded there have been   *)
(* ceil(n / batch_size) calls and the batches make up chapter_ids.         *)
C23_BatchesPartitionIds ==
    /\ Concat(submitted) = SubSeq(chapter_ids, 1, Len(Concat(submitted)))
    /\ \A k \in 1..Len(submitted) :
          /\ Len(submitted[k]) \in 1..batch_size
          /\ k < Len(submitted) => Len(submitted[k]) = batch_size
          /\ Len(submitted[k]) < batch_size =>
                Len(Concat(submitted)) = Len(chapter_ids)
    /\ LoopEnded /\ download_success =>
          /\ Len(submitted) =
                (Len(chapter_ids) + batch_size - 1) \div batch_size
          /\ Concat(submitted) = chapter_ids

C23_Witness ==
    /\ bpc = "done"
    /\ download_success
    /\ Len(chapter_ids) = 2 * batch_size + 20
    /\ Len(submitted) = 3
    /\ Len(submitted[1]) = batch_size
    /\ Len(submitted[2]) = batch_size
    /\ Len(submitted[3]) = 20


(* The call of graphql_query for a batch ends in this step with a result   *)
(* that is not usable.                                                     *)
BatchFails ==
    /\ bpc = "batch"
    /\ pc["command"] = "await"
    /\ pc'["command"] = "idle"
    /\ ret'["command"] = None

(* C24: when the call for a batch gives no usable result the loop is left, *)
(* and from then on no further batch is sent.                              *)
C24_StopsAtFirstFailedBatch ==
    [][/\ BatchFails => bpc' = "report" /\ ~download_success'
       /\ ~download_success =>
             /\ submitted' = submitted
             /\ bpc' \in {"report", "done"}]_vars

C24_Witness ==
    /\ bpc = "done"
    /\ ~download_success
    /\ Len(chapter_ids) > 2 * batch_size
    /\ Len(submitted) = 2

(* The batches whose call has returned a usable result.                    *)
Accepted ==
    IF (bpc = "batch" /\ pc["command"] = "await") \/ ~download_success
    THEN SubSeq(submitted, 1, Len(submitted) - 1)
    ELSE submitted

(* C25: downloaded_count is at every moment the number of ids in the       *)
(* batches accepted so far; when the loop has ended, either                *)
(* download_success holds and downloaded_count is the number of ids, or    *)
(* it does not and downloaded_count is batch_size times the number of      *)
(* batches sent before the failed one, fewer than the number of ids.       *)
C25_CountIsAcceptedPrefix ==
    /\ downloaded_count = Len(Concat(Accepted))
    /\ LoopEnded =>
          \/ /\ download_success
             /\ downloaded_count = Len(chapter_ids)
          \/ /\ ~download_success
             /\ downloaded_count = batch_size * (Len(submitted) - 1)
             /\ downloaded_count < Len(chapter_ids)

C25_Witness ==
    /\ bpc = "done"
    /\ ~download_success
    /\ Len(chapter_ids) = 2 * batch_size + 20
    /\ downloaded_count = batch_size
    /\ outcome = "Added (Queued)"


(* C26: no batch is sent twice by the loop, and the call of graphql_query  *)
(* that carries a batch posts its mutation once, save that a candidate     *)
(* that answered 404 (no GraphQL endpoint at that path) is followed by the *)
(* next one.                                                               *)
C26_EachBatchPostedOnce ==
    /\ \A j, k \in 1..Len(submitted) : j < k => submitted[j] # submitted[k]
    /\ bpc = "batch" /\ pc["command"] = "await" =>
          \/ Len(sent["command"]) = 1
          \/ last["command"] = "404"


(* The environment's value of a variable, with the default of lines 31-32. *)
Given(name) == getenv(env, name, Value(<<>>)).value

(* Construction has failed, or has succeeded.                              *)
ConfigFails == config.error \notin {NoCall, None}
ConfigSucceeds == config.error = None

(* What the stored URL is like after a successful construction.            *)
StoredUrlIsClean ==
    LET url == config.SUWAYOMI_URL.value IN
    /\ startswith(url, Http) \/ startswith(url, Https)
    /\ \A q \in Quotes : ~contains(url, q)
    /\ url = <<>> \/ url[Len(url)] # "/"

(* C27 as stated, of the values the environment gives: construction fails  *)
(* exactly when the token, the URL or the key is absent or empty, the URL  *)
(* does not start with http:// or https:// or contains a quote, or a       *)
(* provided guild id is not numeric; after success the stored URL is       *)
(* clean.                                                                  *)
C27_AsStated ==
    config # NoConfig =>
       /\ ConfigFails <=>
             \/ Given("DISCORD_TOKEN") = <<>>
             \/ Given("SUWAYOMI_URL") = <<>>
             \/ Given("SUWAYOMI_API_KEY") = <<>>
             \/ ~(startswith(Given("SUWAYOMI_URL"), Http)
                  \/ startswith(Given("SUWAYOMI_URL"), Https))
             \/ \E q \in Quotes : contains(Given("SUWAYOMI_URL"), q)
             \/ Given("GUILD_ID") # <<>> /\ ~int_accepts(Given("GUILD_ID"))
       /\ ConfigSucceeds => StoredUrlIsClean

(* The value without the whitespace around it and, inside that, without    *)
(* the double quotes and then the single quotes around it.                 *)
Unwrapped(str) == strip(strip(strip(str, Whitespace), {"\""}), {"'"})

(* C27, of the values as Config stores them: the URL and the key are       *)
(* unwrapped, and the URL loses the slashes at its end, before they are    *)
(* tested; construction fails exactly when the token or one of these two   *)
(* is empty, the URL so stored does not start with http:// or https:// or  *)
(* still contains a quote, or a provided guild id is not accepted by       *)
(* int(); after success the stored URL is clean.                           *)
C27_FailsOnStoredValues ==
    config # NoConfig =>
       LET url == rstrip(Unwrapped(Given("SUWAYOMI_URL")), {"/"})
           key == Unwrapped(Given("SUWAYOMI_API_KEY"))
       IN /\ ConfigFails <=>
                \/ Given("DISCORD_TOKEN") = <<>>
                \/ url = <<>>
                \/ key = <<>>
                \/ ~(startswith(url, Http) \/ startswith(url, Https))
                \/ \E q \in Quotes : contains(url, q)
                \/ Given("GUILD_ID") # <<>>
                   /\ ~int_accepts(Given("GUILD_ID"))
          /\ ConfigSucceeds =>
                /\ StoredUrlIsClean
                /\ config.SUWAYOMI_URL.value = url
                /\ config.SUWAYOMI_API_KEY.value = key

(* A URL given in quotes and with a slash at its end is accepted.          *)
C27_Witness ==
    /\ ConfigSucceeds
    /\ Given("SUWAYOMI_URL") = <<"\"">> \o Http \o <<"h", "/", "\"">>
    /\ config.SUWAYOMI_URL.value = Http \o <<"h">>


(* C28: once close() has run, no handle the bot has created is open.       *)
C28_NoOpenHandleAfterClose == shutdown => open = {}


(* C29: when a request is answered with a status other than 200 and 404,   *)
(* the call returns None and posts to no further candidate.                *)
C29_StatusErrorEndsCall ==
    [][\A t \in Tasks :
          Responds(t) /\ last'[t] = "status" =>
             /\ pc'[t] = "idle"
             /\ ret'[t] = None
             /\ sent'[t] = sent[t]]_vars


(* C30: in a search the calls made so far are those for the first sources  *)
(* of the prefix, one each and in order, and a call starts only when none  *)
(* is going on; in add_button the download calls made so far are those for *)
(* the first batches, one each and in order, and a call starts only when   *)
(* the one before has returned.                                            *)
C30_CallsInListOrder ==
    /\ [](/\ Len(gcalls) <= Len(prefix(sources))
          /\ gcalls = SubSeq(prefix(sources), 1, Len(gcalls))
          /\ \A k \in 1..Len(submitted) :
                submitted[k] = batch(chapter_ids, (k - 1) * batch_size))
    /\ [][/\ gcalls' # gcalls =>
                /\ spc # "call"
                /\ spc' = "call"
                /\ Len(gcalls') = Len(gcalls) + 1
          /\ submitted' # submitted =>
                /\ pc["command"] = "idle"
                /\ Len(submitted') = Len(submitted) + 1
          /\ spc = "call" => gcalls' = gcalls
          /\ pc["command"] = "await" => submitted' = submitted]_vars

C30_Witness ==
    /\ bpc = "sleep"
    /\ Len(submitted) = 3
    /\ submitted[1] # submitted[2]
    /\ submitted[2] # submitted[3]
    /\ downloaded_count = Len(chapter_ids)


(* The handling of the current source ends in this step.                   *)
SourceHandled == spc = "call" /\ spc' # "call"

(* C31: the status is updated exactly when the number of sources the       *)
(* Gateway was called for reaches a multiple of 5; the count shown grows   *)
(* from one update to the next and the hits found never become fewer.      *)
C31_SnapshotEveryFiveAttempts ==
    [][/\ SourceHandled =>
            (spc' = "edit" <=> Len(gcalls) % ProgressEvery = 0)
       /\ spc' = "edit" => spc = "call"
       /\ sources_searched' >= sources_searched
       /\ Len(all_results') >= Len(all_results)]_vars


(* C32: what a source adds to all_results are the first limit manga of its *)
(* payload, in the payload's order; no source has more than limit hits,    *)
(* and the hits are never more than limit times the sources counted (nor   *)
(* limit times the sources the Gateway was called for).                    *)
C32_AtMostLimitPerSource ==
    /\ [](/\ \A src \in Range(sources) :
                Cardinality(HitsFrom(all_results, src)) <= limit
          /\ Len(all_results) <= limit * sources_searched
          /\ Len(all_results) <= limit * Len(gcalls))
    /\ [][SourceHandled /\ search_data' = "mangas" =>
             LET n == Min(Len(mangas'), limit) IN
             /\ Len(all_results') = Len(all_results) + n
             /\ SubSeq(all_results', 1, Len(all_results)) = all_results
             /\ \A k \in 1..n :
                   LET hit == all_results'[Len(all_results) + k] IN
                   /\ hit.title = mangas'[k].title
                   /\ hit.inLibrary = mangas'[k].inLibrary
                   /\ hit.source = sources[si]]_vars

(* A source answered with three manga and one was taken.                   *)
C32_Witness ==
    /\ spc = "done"
    /\ limit = 1
    /\ Len(mangas) = 3
    /\ Len(all_results) = 1
    /\ all_results[1].title = mangas[1].title
    /\ mangas[2].title # mangas[1].title


(* C33: a download call starts only at the top of the loop body, which is  *)
(* entered from the chapters query for the first batch and from the sleep  *)
(* for every later one; a call that has returned leaves the loop body, a   *)
(* successful one into the sleep.                                          *)
C33_SleepBetweenBatches ==
    [][/\ submitted' # submitted => bpc = "batch" /\ pc["command"] = "idle"
       /\ bpc' = "batch" /\ bpc # "batch" =>
             \/ bpc = "sleep"
             \/ bpc = "chapters" /\ submitted = <<>>
       /\ bpc = "batch" /\ pc["command"] = "await" /\ pc'["command"] = "idle"
             => /\ bpc' \in {"sleep", "report", "done"}
                /\ ret'["command"] = Payload => bpc' = "sleep"]_vars

(* The second batch is on its way, after the sleep.                        *)
C33_Witness ==
    /\ bpc = "batch"
    /\ pc["command"] = "await"
    /\ batch_i = batch_size
    /\ Len(submitted) = 2
    /\ downloaded_count = batch_size


(* C34: _working_endpoint is None or one of the two configured URLs, and   *)
(* the list of candidates of every call consists of these two URLs, each   *)
(* once.                                                                   *)
C34_StickyIsConfiguredUrl ==
    /\ working_endpoint \in {None} \cup Range(base_endpoints)
    /\ \A t \in Tasks :
          endpoints[t] # <<>> =>
             /\ Len(endpoints[t]) = 2
             /\ endpoints[t][1] # endpoints[t][2]
             /\ Range(endpoints[t]) = {ApiGraphql, Graphql}

(* A call that found /graphql sticky tries it first, then /api/graphql.    *)
C34_Witness ==
    /\ working_endpoint = Graphql
    /\ \E t \in Tasks : endpoints[t] = <<Graphql, ApiGraphql>>


(* C35: _working_endpoint is set to a URL only in a step in which a call   *)
(* returns a payload it obtained from that URL; a call that returns None   *)
(* leaves it as it was or sets it to None.                                 *)
C35_StickyOnlyWithPayload ==
    [][/\ working_endpoint' # working_endpoint /\ working_endpoint' # None =>
             \E t \in Tasks :
                /\ Responds(t)
                /\ pc'[t] = "idle"
                /\ ret'[t] = Payload
                /\ working_endpoint' = graphql_url(t)
       /\ \A t \in Tasks :
             Responds(t) /\ pc'[t] = "idle" /\ ret'[t] = None =>
                working_endpoint' \in {working_endpoint, None}]_vars


(* Task t issues a request in this step: the first of a call, or the next  *)
(* after the one before has ended.                                         *)
Posts(t) == (Starts(t) \/ Responds(t)) /\ pc'[t] = "await"

(* C36: a request is issued on a handle that is open at that moment, also  *)
(* when close() or the session reset of another task came between.         *)
C36_NoRequestOnClosedHandle ==
    [][\A t \in Tasks :
          Posts(t) => lsession'[t] # NoSession /\ lsession'[t] \in open']_vars

(* close() closed the handle of a call in flight; its request timed out    *)
(* and the next one went out on a new handle.                              *)
C36_Witness ==
    /\ shutdown
    /\ 1 \notin open
    /\ \E t \in Tasks :
          /\ pc[t] = "await"
          /\ nresp[t] = 1
          /\ last[t] = "timeout"
          /\ lsession[t] = 2
          /\ 2 \in open


(* C37: the task of refresh_graphql_task is created once, out of the state *)
(* in which the loop was never started; a later on_ready finds the flag    *)
(* set and leaves the loop as it is.                                       *)
C37_LoopStartedOnce ==
    /\ [](token_refresh_task_running <=> loop_task # "unstarted")
    /\ [][loop_task' # loop_task =>
             \/ loop_task = "unstarted" /\ loop_task' = "waiting"
             \/ loop_task = "waiting" /\ loop_task' = "running"]_vars

(* The loop runs, and on_ready may come again.                             *)
C37_Witness ==
    /\ ready
    /\ ~shutdown
    /\ token_refresh_task_running
    /\ loop_task = "running"
    /\ calls > 0


(* The search is past the filter of lines 1643-1649.                       *)
Filtered == spc \in {"loop", "call", "edit", "sleep", "done"}

(* C38: without include_nsfw the Gateway is called for no source whose     *)
(* node says isNsfw and no hit carries such a source, the sources being    *)
(* the other nodes in their order; with include_nsfw the sources are all   *)
(* the nodes.                                                              *)
C38_NsfwSourcesAreLeftOut ==
    Filtered =>
       /\ ~include_nsfw =>
             /\ \A k \in Range(gcalls) : ~all_sources[k]
             /\ \A k \in 1..Len(all_results) :
                   ~all_sources[all_results[k].source]
             /\ Range(sources) = {k \in 1..Len(all_sources) : ~all_sources[k]}
       /\ include_nsfw => sources = [k \in 1..Len(all_sources) |-> k]
       /\ \A j, k \in 1..Len(sources) : j < k => sources[j] < sources[k]

(* The first of two sources is NSFW; only the second was searched.         *)
C38_Witness ==
    /\ spc = "done"
    /\ ~include_nsfw
    /\ all_sources = <<TRUE, FALSE>>
    /\ gcalls = <<2>>
    /\ all_results # <<>>
    /\ all_results[1].source = 2


(* The call of graphql_query the handler is in ends in this step with v.   *)
ButtonCallEndsWith(v) ==
    /\ bpc \in ButtonCalls
    /\ pc'["command"] = "idle"
    /\ ret'["command"] = v

(* C39: the handler comes to the chapters query only from the add mutation *)
(* that returned a payload, and to the download loop only from the         *)
(* chapters query that returned a payload with chapters; every call is     *)
(* made at one of these three places, in this order, and after an add      *)
(* mutation that failed the handler ends with no further call.             *)
C39_AddThenChaptersThenDownloads ==
    /\ [](/\ outcome = "Failed to Add" =>
                calls = 1 /\ chapter_ids = <<>> /\ submitted = <<>>
          /\ bpc \in {"idle", "add"} => calls <= 1 /\ submitted = <<>>
          /\ bpc = "chapters" => calls \in {1, 2} /\ submitted = <<>>
          /\ submitted # <<>> => chapter_ids # <<>> /\ calls = 2 + Len(submitted))
    /\ [][/\ bpc' = "chapters" /\ bpc # "chapters" =>
                bpc = "add" /\ ButtonCallEndsWith(Payload)
          /\ bpc' = "batch" /\ bpc \notin {"batch", "sleep"} =>
                /\ bpc = "chapters"
                /\ ButtonCallEndsWith(Payload)
                /\ chapter_ids' # <<>>
          /\ bpc = "add" /\ ButtonCallEndsWith(None) =>
                bpc' = "done" /\ outcome' = "Failed to Add"
          /\ calls' # calls => bpc \in ButtonCalls
          /\ bpc = "done" => calls' = calls]_vars

(* All three kinds of call have been made, in their order.                 *)
C39_Witness ==
    /\ bpc = "done"
    /\ outcome = "Added & Queued"
    /\ calls = 3
    /\ Len(submitted) = 1
    /\ submitted[1] = chapter_ids

=============================================================================
